---------------------------- MODULE Spec2Model ----------------------------
(***************************************************************************)
(* A model of the tool-invocation protocol runtime of codementor-ai:       *)
(*   - the client runtime (vscode-extension/src/services/mcp-client.ts):   *)
(*     transports, reconnection, the in-flight request table, timeouts;    *)
(*   - the token bucket RateLimiter (shared utils);                        *)
(*   - the two-tier CacheService and the dispatcher MCPServer.executeTool  *)
(*     with its cache fingerprint generateCacheKey;                        *)
(*   - the server runtime (index.ts and MCPServer): the connection gate,   *)
(*     request and subscribe frames, the HTTP endpoint, broadcast.         *)
(* Each component has its own next-state relation over the shared state:   *)
(* SpecClient (and its fair variant FairSpecClient), SpecLimiter (and its  *)
(* fair variant FairSpecLimiter),                                          *)
(* SpecKey, SpecCache, SpecServer, SpecConn, SpecGate and SpecDispatch     *)
(* (and its fair variant FairSpecDispatch).                                *)
(***************************************************************************)
EXTENDS Integers, Sequences, FiniteSets, Bags, TLC

(***************************************************************************)
(* Bounds of the model.                                                    *)
(***************************************************************************)
\* transport objects (WebSocket instances) alive at the same time
MaxSocks == 2
\* sendRequest calls per behaviour; correlation ids are 1..MaxRequests
MaxRequests == 2
\* reconnect timers pending at the same time
MaxTimers == 3

\* concurrent callers of one RateLimiter; each makes one acquire(n) call
MaxCallers == 3
\* constructor arguments of the RateLimiter: capacity in 1..MaxCapacity,
\* refillRate in 1..MaxRate, and the refill period in clock ticks (the
\* program's default period is 1000 ms: a tick is a quarter of it)
MaxCapacity == 2
MaxRate == 2
refillPeriod == 4

\* parameter bags of a tool call: at most MaxKeys keys, numbered in their
\* lexicographic order, with numbers 1..MaxPrim or one-member objects as values
MaxKeys == 2
MaxPrim == 2

\* the cache and the server: seconds on the clock, largest ttl of a direct
\* set call, tool calls per behaviour; cacheTtl is config.cacheTtl (3600 s by
\* default) on the clock of the model
MaxNow == 2
MaxTtl == 2
MaxInvocations == 2
cacheTtl == 2

\* the server runtime: connections and calls of broadcast per behaviour (its
\* requests are the callers of the limiter)
MaxConns == 2
MaxBroadcasts == 1
MaxInbox == 2
\* the limiter of the server, new RateLimiter(100, 60), within the bounds
serverCapacity == 1
serverRate == 1

(***************************************************************************)
(* Program constants of the client.                                        *)
(***************************************************************************)
maxReconnectAttempts == 5
reconnectDelay == 5000
requestTimeout == 30000

RequestIds == 1..MaxRequests
\* get_pr_comments is the one tool with an HTTP fallback (sendRequest)
Methods == {"get_pr_comments", "get_pr_files"}

VARIABLES
    \* ---- MCPClient fields
    ws,                 \* this.ws: the current transport, a record [state, auto, frames];
                        \*   state "null" is this.ws === null
    isConnected,        \* this.isConnected
    reconnectAttempts,  \* this.reconnectAttempts
    pendingRequests,    \* this.pendingRequests: the ids that have an entry
    \* ---- the environment of the client
    stale,              \* bag of the earlier transports that are still alive: this.ws no
                        \*   longer points to them, their handlers still run
    reconnectTimers,    \* setTimeout callbacks of attemptReconnect not yet fired
    reqTimer,           \* ids whose request timeout is armed (not fired, not cleared)
    status,             \* per sendRequest call: what its caller has observed
    nextId,             \* the next correlation id to be generated
    maxExceeded         \* attemptReconnect returned at its guard since the last explicit connect()

VARIABLES
    \* ---- RateLimiter fields
    capacity,           \* this.capacity
    refillRate,         \* this.refillRate
    tokens,             \* this.tokens
    sinceRefill,        \* Date.now() - this.lastRefill, in ticks
    \* ---- the callers of acquire and the clock
    clock,              \* ticks since the constructor ran, up to one period
    lpc,                \* per caller: idle, waiting (in its setTimeout), done
    need,               \* per caller: the n of its acquire(n) call
    wake,               \* per waiting caller: ticks until its timer fires
    spent,              \* tokens debited by completed acquire calls
    credited,           \* tokens added by refill
    clamped             \* the bucket has been full while time passed, or a refill
                        \*   was cut at the capacity (Math.min in refill)

limiterVars == <<capacity, refillRate, tokens, sinceRefill, clock, lpc, need, wake,
                 spent, credited, clamped>>

VARIABLES
    \* ---- two calls of generateCacheKey and what they returned
    kTool,              \* <<toolName of the 1st call, of the 2nd call>>
    kParams,            \* <<params of the 1st call, of the 2nd call>>
    kKey                \* <<cache key of the 1st call, of the 2nd call>>

keyVars == <<kTool, kParams, kKey>>

VARIABLES
    \* ---- CacheService
    localCache,         \* this.localCache: key -> [value, expires]
    redisStore,         \* the Redis server: key -> [text, expires], live keys only
    now,                \* Date.now(), in seconds
    lastCall,           \* the last call of get/set/delete/clear and what it returned
    deadline            \* key -> when the ttl of the last set(key, ..) is over, or -1

cacheVars == <<localCache, redisStore, now, lastCall, deadline>>

VARIABLES
    \* ---- MCPServer.executeTool, one entry per call
    ipc,                \* where the call is: idle, acquiring, calling, done, failed
    itool,              \* toolName
    iparams,            \* params
    iresult,            \* what the handler or the cache returned, or the error thrown
    imissed,            \* the cache lookup missed and the handler was invoked
    idoneBefore,        \* the calls that had returned when this one was made
    ilookupAt,          \* clock at the cache lookup
    istoredAt           \* clock at the cache store

serverVars == <<ipc, itool, iparams, iresult, imissed, idoneBefore, ilookupAt, istoredAt>>

VARIABLES
    \* ---- the server runtime: index.ts (part_004) and MCPServer (part_002)
    conn,               \* per connection: none, open, closing, closed, rejected
    cred,               \* per connection: the credential it presented
    closeCode,          \* per connection: the code the server closed it with, or 0
    clients,            \* this.clients: the registered connections, in insertion order
    csub,               \* per connection: it has sent a subscribe frame
    inbox,              \* per connection: the frames delivered to it, but for replies
    broadcasts,         \* calls of broadcast so far
    bresult,            \* how the last call of broadcast ended
    bfailed,            \* the connections whose send failed in the last broadcast
    rstage,             \* per request: idle, dispatched, replied, dropped
    rconn,              \* per request: its connection, or HTTP
    rmethod,            \* per request: the tool name
    rframe              \* per request: the reply frame (or HTTP body) emitted

connVars == <<conn, cred, closeCode, clients, csub, inbox, broadcasts, bresult, bfailed,
              rstage, rconn, rmethod, rframe>>

clientVars == <<ws, isConnected, reconnectAttempts, pendingRequests, stale,
                reconnectTimers, reqTimer, status, nextId, maxExceeded>>

vars == <<clientVars, limiterVars, keyVars, cacheVars, serverVars, connVars>>

(***************************************************************************)
(* The client runtime: src/vscode-extension/src/services/mcp-client.ts     *)
(*                                                                         *)
(* A transport is a record                                                 *)
(*   state : "connecting", "aborting" (close() called before the handshake *)
(*           ended), "open" (also while its closing handshake runs),       *)
(*           "closed", or "null" for no transport                          *)
(*   auto  : it was made by a connect() that a reconnect timer called,     *)
(*           and that connect() promise is still pending                   *)
(*   frames: ids of the requests written to it whose reply frame has not   *)
(*           been received yet                                             *)
(***************************************************************************)
NoSocket == [state |-> "null", auto |-> FALSE, frames |-> {}]
ClosedSocket == [state |-> "closed", auto |-> FALSE, frames |-> {}]
Alive(sock) == sock.state \in {"connecting", "aborting", "open"}

ClientInit ==
    /\ ws = NoSocket
    /\ isConnected = FALSE
    /\ reconnectAttempts = 0
    /\ pendingRequests = {}
    /\ stale = EmptyBag
    /\ reconnectTimers = 0
    /\ reqTimer = {}
    /\ status = [i \in RequestIds |-> "unsent"]
    /\ nextId = 1
    /\ maxExceeded = FALSE

\* The transports whose events can still reach the client: the current one
\* and the stale ones.
Transports ==
    {[cur |-> TRUE, sock |-> ws]} \cup {[cur |-> FALSE, sock |-> r] : r \in BagToSet(stale)}

NumAlive == (IF Alive(ws) THEN 1 ELSE 0) + BagCardinality(stale)

\* Transport t becomes `sock'; a stale transport that closed is forgotten.
Update(t, sock) ==
    IF t.cur
    THEN /\ ws' = sock
         /\ stale' = stale
    ELSE /\ ws' = ws
         /\ stale' = (stale (-) SetToBag({t.sock}))
                       (+) (IF Alive(sock) THEN SetToBag({sock}) ELSE EmptyBag)

\* attemptReconnect(), on the record of the fields it reads and writes:
\* at the maximum it only logs, otherwise it counts the attempt and arms a timer.
AttemptReconnect(r) ==
    IF r.attempts >= maxReconnectAttempts
    THEN [r EXCEPT !.exceeded = TRUE]
    ELSE [r EXCEPT !.attempts = @ + 1, !.timers = @ + 1]

ReconnectState ==
    [attempts |-> reconnectAttempts, timers |-> reconnectTimers, exceeded |-> maxExceeded]

\* new WebSocket(...) in connect(): this.ws is overwritten; the previous
\* transport is neither closed nor are its handlers removed.
NewSocket(auto) ==
    /\ NumAlive < MaxSocks
    /\ stale' = IF Alive(ws) THEN stale (+) SetToBag({ws}) ELSE stale
    /\ ws' = [state |-> "connecting", auto |-> auto, frames |-> {}]

\* connect() called by the extension (activation, command, updateConfiguration).
Connect ==
    /\ NewSocket(FALSE)
    /\ maxExceeded' = FALSE
    /\ UNCHANGED <<isConnected, reconnectAttempts, pendingRequests, reconnectTimers,
                   reqTimer, status, nextId>>

\* ws.on('open'): the handshake succeeded and resolves the connect() promise.
\* messageQueue is never pushed to, so processMessageQueue() finds it empty.
SockOpen(t) ==
    /\ t.sock.state = "connecting"
    /\ Update(t, [t.sock EXCEPT !.state = "open", !.auto = FALSE])
    /\ isConnected' = TRUE
    /\ reconnectAttempts' = 0
    /\ UNCHANGED <<pendingRequests, reconnectTimers, reqTimer, status, nextId,
                   maxExceeded>>

\* A handshake that fails (or is aborted by close()): the transport emits
\* 'error' and then 'close'.  The error handler rejects the connect() promise;
\* when connect() was called by a reconnect timer the rejection is caught
\* there and calls attemptReconnect(); the close handler calls it too.
SockFail(t) ==
    /\ t.sock.state \in {"connecting", "aborting"}
    /\ LET afterClose == AttemptReconnect(ReconnectState)
           after == IF t.sock.auto THEN AttemptReconnect(afterClose) ELSE afterClose
       IN  /\ after.timers <= MaxTimers
           /\ reconnectAttempts' = after.attempts
           /\ reconnectTimers' = after.timers
           /\ maxExceeded' = after.exceeded
    /\ isConnected' = FALSE
    /\ Update(t, ClosedSocket)
    /\ UNCHANGED <<pendingRequests, reqTimer, status, nextId>>

\* A close handler that rejects every in-flight request and empties the table.
SockClose_FailsPending(t) ==
    /\ t.sock.state = "open"
    /\ LET after == AttemptReconnect(ReconnectState)
       IN  /\ after.timers <= MaxTimers
           /\ reconnectAttempts' = after.attempts
           /\ reconnectTimers' = after.timers
           /\ maxExceeded' = after.exceeded
    /\ isConnected' = FALSE
    /\ Update(t, ClosedSocket)
    /\ pendingRequests' = {}
    /\ reqTimer' = reqTimer \ pendingRequests
    /\ status' = [id \in RequestIds |->
                    IF id \in pendingRequests /\ status[id] = "pending"
                    THEN "rejected_closed" ELSE status[id]]
    /\ UNCHANGED nextId

\* ws.on('close') of an established transport (closed by the server, by the
\* network or by this.ws.close()): the frames still on their way are lost.
SockClose(t) ==
    /\ t.sock.state = "open"
    /\ LET after == AttemptReconnect(ReconnectState)
       IN  /\ after.timers <= MaxTimers
           /\ reconnectAttempts' = after.attempts
           /\ reconnectTimers' = after.timers
           /\ maxExceeded' = after.exceeded
    /\ isConnected' = FALSE
    /\ Update(t, ClosedSocket)
    /\ UNCHANGED <<pendingRequests, reqTimer, status, nextId>>

\* The setTimeout callback of attemptReconnect: await this.connect().
ReconnectTimerFires ==
    /\ reconnectTimers > 0
    /\ reconnectTimers' = reconnectTimers - 1
    /\ NewSocket(TRUE)
    /\ UNCHANGED <<isConnected, reconnectAttempts, pendingRequests, reqTimer, status,
                   nextId, maxExceeded>>

\* disconnect(): nothing when this.ws is null; otherwise this.ws.close() and
\* the fields it resets.  The closed transport lives on until its events come.
\* A disconnect() that also cancels the timeouts of the requests in flight.
Disconnect_ClearsTimers ==
    IF ws.state = "null"
    THEN UNCHANGED clientVars
    ELSE /\ stale' = IF Alive(ws)
                     THEN stale (+) SetToBag({[ws EXCEPT !.state =
                                       IF @ = "connecting" THEN "aborting" ELSE @]})
                     ELSE stale
         /\ ws' = NoSocket
         /\ isConnected' = FALSE
         /\ pendingRequests' = {}
         /\ reqTimer' = reqTimer \ pendingRequests
         /\ UNCHANGED <<reconnectAttempts, reconnectTimers, status, nextId, maxExceeded>>

\* disconnect()
Disconnect ==
    IF ws.state = "null"
    THEN UNCHANGED clientVars
    ELSE /\ stale' = IF Alive(ws)
                     THEN stale (+) SetToBag({[ws EXCEPT !.state =
                                       IF @ = "connecting" THEN "aborting" ELSE @]})
                     ELSE stale
         /\ ws' = NoSocket
         /\ isConnected' = FALSE
         /\ pendingRequests' = {}
         /\ UNCHANGED <<reconnectAttempts, reconnectTimers, reqTimer, status, nextId,
                        maxExceeded>>

\* updateConfiguration(configManager): when connected, this.disconnect() and
\* then this.connect(), which makes its transport before it first awaits.
UpdateConfiguration ==
    IF ~isConnected
    THEN UNCHANGED clientVars
    ELSE /\ NumAlive < MaxSocks
         /\ stale' = IF Alive(ws)
                     THEN stale (+) SetToBag({[ws EXCEPT !.state =
                                       IF @ = "connecting" THEN "aborting" ELSE @]})
                     ELSE stale
         /\ ws' = [state |-> "connecting", auto |-> FALSE, frames |-> {}]
         /\ isConnected' = FALSE
         /\ pendingRequests' = {}
         /\ maxExceeded' = FALSE
         /\ UNCHANGED <<reconnectAttempts, reconnectTimers, reqTimer, status, nextId>>

\* The promise of a sendRequest call settles once: later resolve/reject calls
\* change nothing.
Settle(st, id, outcome) ==
    IF st[id] \in {"pending", "http"} THEN [st EXCEPT ![id] = outcome] ELSE st

\* A sendRequest that, while not connected, stores an entry and arms a
\* timeout before it fails or falls back.
SendWhileDisconnected_StoresEntry(method) ==
    /\ ~isConnected
    /\ nextId <= MaxRequests
    /\ nextId' = nextId + 1
    /\ pendingRequests' = pendingRequests \cup {nextId}
    /\ reqTimer' = reqTimer \cup {nextId}
    /\ status' = [status EXCEPT ![nextId] =
                    IF method = "get_pr_comments" THEN "http" ELSE "rejected_notconnected"]
    /\ UNCHANGED <<ws, isConnected, reconnectAttempts, stale, reconnectTimers, maxExceeded>>

\* sendRequest(method, params) while not connected.
SendWhileDisconnected(method) ==
    /\ ~isConnected
    /\ nextId <= MaxRequests
    /\ nextId' = nextId + 1
    /\ status' = [status EXCEPT ![nextId] =
                    IF method = "get_pr_comments" THEN "http" ELSE "rejected_notconnected"]
    /\ UNCHANGED <<ws, isConnected, reconnectAttempts, pendingRequests, stale,
                   reconnectTimers, reqTimer, maxExceeded>>

\* getPRCommentsHttp: the axios call returns or throws.
HttpDone(id, ok) ==
    /\ status[id] = "http"
    /\ status' = [status EXCEPT ![id] = IF ok THEN "resolved_http" ELSE "rejected_http"]
    /\ UNCHANGED <<ws, isConnected, reconnectAttempts, pendingRequests, stale,
                   reconnectTimers, reqTimer, nextId, maxExceeded>>

\* this.ws!.send(messageStr): throws on a null this.ws and on a transport
\* that is still connecting; a closed transport drops the frame without
\* throwing.
SendThrows == ws.state \in {"null", "connecting"}

\* sendRequest(method, params) while connected.  The id is fresh
\* (req_<time>_<random>).  A written frame is answered by the server with one
\* reply frame on the same transport (MCPServer.handleWebSocketMessage): the
\* id in ws.frames stands for the request and then its reply on their way.
SendWhileConnected(method) ==
    /\ isConnected
    /\ nextId <= MaxRequests
    /\ nextId' = nextId + 1
    /\ IF SendThrows
       THEN /\ status' = [status EXCEPT ![nextId] = "rejected_send"]
            /\ UNCHANGED <<ws, pendingRequests, reqTimer>>
       ELSE /\ status' = [status EXCEPT ![nextId] = "pending"]
            /\ pendingRequests' = pendingRequests \cup {nextId}
            /\ reqTimer' = reqTimer \cup {nextId}
            /\ ws' = IF ws.state = "open"
                     THEN [ws EXCEPT !.frames = @ \cup {nextId}]
                     ELSE ws
    /\ UNCHANGED <<isConnected, reconnectAttempts, stale, reconnectTimers, maxExceeded>>

\* A timeout callback that rejects but leaves the entry in the table.
RequestTimeout_KeepsEntry(id) ==
    /\ id \in reqTimer
    /\ reqTimer' = reqTimer \ {id}
    /\ status' = Settle(status, id, "rejected_timeout")
    /\ UNCHANGED <<ws, isConnected, reconnectAttempts, pendingRequests, stale,
                   reconnectTimers, nextId, maxExceeded>>

\* The setTimeout callback of sendRequest, after requestTimeout ms.
RequestTimeout(id) ==
    /\ id \in reqTimer
    /\ reqTimer' = reqTimer \ {id}
    /\ pendingRequests' = pendingRequests \ {id}
    /\ status' = Settle(status, id, "rejected_timeout")
    /\ UNCHANGED <<ws, isConnected, reconnectAttempts, stale, reconnectTimers, nextId,
                   maxExceeded>>

\* A handleResponse that forgets every entry instead of the one it settles.
HandleResponse_ClearsTable(payload) ==
    IF payload.id \in pendingRequests
    THEN /\ pendingRequests' = {}
         /\ reqTimer' = reqTimer \ {payload.id}
         /\ status' = Settle(status, payload.id,
                             IF payload.error THEN "rejected_error" ELSE "resolved")
    ELSE UNCHANGED <<pendingRequests, reqTimer, status>>

\* A handleResponse that does not clear the timeout of the entry.
HandleResponse_KeepsTimer(payload) ==
    IF payload.id \in pendingRequests
    THEN /\ pendingRequests' = pendingRequests \ {payload.id}
         /\ status' = Settle(status, payload.id,
                             IF payload.error THEN "rejected_error" ELSE "resolved")
         /\ UNCHANGED reqTimer
    ELSE UNCHANGED <<pendingRequests, reqTimer, status>>

\* handleResponse(payload): payload = {id, result, error}.
HandleResponse(payload) ==
    IF payload.id \in pendingRequests
    THEN /\ pendingRequests' = pendingRequests \ {payload.id}
         /\ reqTimer' = reqTimer \ {payload.id}
         /\ status' = Settle(status, payload.id,
                             IF payload.error THEN "rejected_error" ELSE "resolved")
    ELSE UNCHANGED <<pendingRequests, reqTimer, status>>

\* handleError(payload): payload = {id, error}.
HandleError(payload) ==
    IF payload.id \in pendingRequests
    THEN /\ pendingRequests' = pendingRequests \ {payload.id}
         /\ reqTimer' = reqTimer \ {payload.id}
         /\ status' = Settle(status, payload.id, "rejected_error")
    ELSE UNCHANGED <<pendingRequests, reqTimer, status>>

\* handleMessage(data) for the frame types the server writes in reply to a
\* request; a response frame of the server carries no error member.
HandleMessage(type, id) ==
    CASE type = "response" -> HandleResponse([id |-> id, error |-> FALSE])
      [] type = "error" -> HandleError([id |-> id, error |-> TRUE])
      [] OTHER -> UNCHANGED <<pendingRequests, reqTimer, status>>

\* ws.on('message') of transport t: the server's reply to request id arrives,
\* a response frame or an error frame.
DeliverFrame(t, id, type) ==
    /\ t.sock.state = "open"
    /\ id \in t.sock.frames
    /\ Update(t, [t.sock EXCEPT !.frames = @ \ {id}])
    /\ HandleMessage(type, id)
    /\ UNCHANGED <<isConnected, reconnectAttempts, reconnectTimers, nextId, maxExceeded>>

ClientStep ==
    \/ Connect
    \/ \E t \in Transports : SockOpen(t)
    \/ \E t \in Transports : SockFail(t)
    \/ \E t \in Transports : SockClose(t)
    \/ ReconnectTimerFires
    \/ Disconnect
    \/ UpdateConfiguration
    \/ \E m \in Methods : SendWhileDisconnected(m)
    \/ \E m \in Methods : SendWhileConnected(m)
    \/ \E id \in RequestIds, ok \in BOOLEAN : HttpDone(id, ok)
    \/ \E id \in RequestIds : RequestTimeout(id)
    \/ \E t \in Transports, id \in RequestIds, type \in {"response", "error"} :
          DeliverFrame(t, id, type)

ClientNext == ClientStep /\ UNCHANGED <<limiterVars, keyVars, cacheVars, serverVars, connVars>>

(***************************************************************************)
(* The token bucket: class RateLimiter, src/jest.config.js 522-556         *)
(***************************************************************************)
Callers == 1..MaxCallers

Min(a, b) == IF a <= b THEN a ELSE b

\* Math.ceil(a / b) and Math.floor(a / b) for a >= 0, b > 0
Ceil(a, b) == (a + b - 1) \div b
Floor(a, b) == a \div b

\* Before the constructor has run: capacity 0 stands for no limiter.
LimiterInit ==
    /\ capacity = 0
    /\ refillRate = 0
    /\ tokens = 0
    /\ sinceRefill = 0
    /\ clock = 0
    /\ lpc = [c \in Callers |-> "idle"]
    /\ need = [c \in Callers |-> 0]
    /\ wake = [c \in Callers |-> 0]
    /\ spent = 0
    /\ credited = 0
    /\ clamped = FALSE

\* constructor(capacity, refillRate, refillPeriod): the bucket starts full.
NewRateLimiter(cap, rate) ==
    /\ capacity = 0
    /\ capacity' = cap
    /\ refillRate' = rate
    /\ tokens' = cap
    /\ sinceRefill' = 0
    /\ clock' = 0
    /\ UNCHANGED <<lpc, need, wake, spent, credited, clamped>>

\* From this many ticks on, refill fills the bucket whatever it holds: the
\* model stops counting elapsed time there.
FullAfter == Ceil(capacity * refillPeriod, refillRate)

\* A refill that credits each elapsed tick on its own (and so rounds up).
TokensAfterRefill_NoClamp ==
    tokens + Ceil(sinceRefill * refillRate, refillPeriod)

\* refill(): the token count it leaves; it also sets lastRefill to now.
TokensAfterRefill ==
    Min(capacity, tokens + Floor(sinceRefill * refillRate, refillPeriod))

\* An acquire that debits without looking at the token count.
TryAcquire_NoCheck(c, n) ==
    /\ tokens' = TokensAfterRefill - n
    /\ spent' = spent + n
    /\ lpc' = [lpc EXCEPT ![c] = "done"]
    /\ need' = [need EXCEPT ![c] = n]
    /\ wake' = [wake EXCEPT ![c] = 0]
    /\ credited' = credited + (TokensAfterRefill - tokens)
    /\ clamped' = (clamped \/ tokens + Floor(sinceRefill * refillRate, refillPeriod) > capacity)
    /\ sinceRefill' = 0

\* One pass through acquire(n): refill, then debit and return, or arm a
\* timer for the time the missing tokens take to refill and try again later.
TryAcquire(c, n) ==
    /\ credited' = credited + (TokensAfterRefill - tokens)
    /\ clamped' = (clamped \/ tokens + Floor(sinceRefill * refillRate, refillPeriod) > capacity)
    /\ sinceRefill' = 0
    /\ need' = [need EXCEPT ![c] = n]
    /\ IF TokensAfterRefill >= n
       THEN /\ tokens' = TokensAfterRefill - n
            /\ spent' = spent + n
            /\ lpc' = [lpc EXCEPT ![c] = "done"]
            /\ wake' = [wake EXCEPT ![c] = 0]
       ELSE /\ tokens' = TokensAfterRefill
            /\ spent' = spent
            /\ lpc' = [lpc EXCEPT ![c] = "waiting"]
            /\ wake' = [wake EXCEPT ![c] =
                          Ceil((n - TokensAfterRefill) * refillPeriod, refillRate)]

\* A caller calls acquire(n); callers are numbered in the order of their calls.
Acquire(c, n) ==
    /\ capacity > 0
    /\ lpc[c] = "idle"
    /\ \A d \in Callers : d < c => lpc[d] # "idle"
    /\ TryAcquire(c, n)
    /\ UNCHANGED <<capacity, refillRate, clock>>

\* The timer of a waiting caller fires: return this.acquire(tokens).
Retry(c) ==
    /\ lpc[c] = "waiting"
    /\ wake[c] = 0
    /\ TryAcquire(c, need[c])
    /\ UNCHANGED <<capacity, refillRate, clock>>

\* Time advances by one tick; timers fire when they are due.
Tick ==
    /\ capacity > 0
    /\ \A c \in Callers : lpc[c] = "waiting" => wake[c] > 0
    /\ wake' = [c \in Callers |-> IF lpc[c] = "waiting" THEN wake[c] - 1 ELSE 0]
    /\ sinceRefill' = Min(sinceRefill + 1, FullAfter)
    /\ clock' = Min(clock + 1, refillPeriod)
    /\ clamped' = (clamped \/ tokens = capacity)
    /\ UNCHANGED <<capacity, refillRate, tokens, lpc, need, spent, credited>>

LimiterStep ==
    \/ \E cap \in 1..MaxCapacity, rate \in 1..MaxRate : NewRateLimiter(cap, rate)
    \/ \E c \in Callers, n \in 1..(capacity + 1) : Acquire(c, n)
    \/ \E c \in Callers : Retry(c)
    \/ Tick

LimiterNext == LimiterStep /\ UNCHANGED <<clientVars, keyVars, cacheVars, serverVars, connVars>>

(***************************************************************************)
(* The cache fingerprint: MCPServer.generateCacheKey, part_002 751-754     *)
(*                                                                         *)
(* A parameter bag is an object: the sequence of its members [k, v] in     *)
(* insertion order, with distinct keys.  A value is a number               *)
(* [t |-> "num", v |-> n] or an object [t |-> "obj", v |-> members] whose  *)
(* members hold numbers.                                                   *)
(***************************************************************************)
Keys == 1..MaxKeys
Tools == {"get_pr_comments", "get_pr_files"}

Num(n) == [t |-> "num", v |-> n]
Obj(members) == [t |-> "obj", v |-> members]

Prims == {Num(n) : n \in 1..MaxPrim}
InnerObjects == {Obj(<<[k |-> k, v |-> p]>>) : k \in Keys, p \in Prims}
ParamValues == Prims \cup InnerObjects

Range(s) == {s[i] : i \in 1..Len(s)}
KeysOf(members) == {members[i].k : i \in 1..Len(members)}
DistinctKeys(members) == Cardinality(KeysOf(members)) = Len(members)

ParamBags ==
    {s \in UNION {[1..n -> [k : Keys, v : ParamValues]] : n \in 0..MaxKeys} : DistinctKeys(s)}

\* Two bags are equal as sets of key/value pairs.
SamePairs(p, q) == Range(p) = Range(q)

\* Object.keys(params): the keys in insertion order.
ObjectKeys(members) == [i \in 1..Len(members) |-> members[i].k]

\* Array.prototype.sort() on keys: the increasing arrangement.
RECURSIVE SortKeys(_)
SortKeys(ks) ==
    IF ks = <<>> THEN <<>>
    ELSE LET least == CHOOSE i \in 1..Len(ks) : \A j \in 1..Len(ks) : ks[i] <= ks[j]
         IN  <<ks[least]>> \o SortKeys([i \in 1..(Len(ks) - 1) |->
                                          IF i < least THEN ks[i] ELSE ks[i + 1]])

\* The member of an object with key k (the object has one).
Member(members, k) == CHOOSE m \in Range(members) : m.k = k

\* JSON.stringify(value, allow) with an array as replacer: an object is
\* written with the members whose key is in allow, in the order of allow, at
\* every depth; a number is written as it is.  The text is modelled by its
\* structure: the sequence of the written [k, v].
StringifyInner(value, allow) ==
    IF value.t = "num" THEN value
    ELSE Obj([i \in 1..Len(SelectSeq(allow, LAMBDA k : k \in KeysOf(value.v))) |->
                LET k == SelectSeq(allow, LAMBDA x : x \in KeysOf(value.v))[i]
                IN  [k |-> k, v |-> Member(value.v, k).v]])

Stringify(members, allow) ==
    LET written == SelectSeq(allow, LAMBDA k : k \in KeysOf(members))
    IN  [i \in 1..Len(written) |->
            [k |-> written[i], v |-> StringifyInner(Member(members, written[i]).v, allow)]]

\* Buffer.from(text).toString('base64'): one text, one encoding.
Base64(text) == <<"base64", text>>

\* A generateCacheKey that passes the keys to the replacer unsorted.
generateCacheKey_Unsorted(toolName, params) ==
    <<"mcp", toolName, Base64(Stringify(params, ObjectKeys(params)))>>

\* generateCacheKey(toolName, params)
generateCacheKey(toolName, params) ==
    <<"mcp", toolName, Base64(Stringify(params, SortKeys(ObjectKeys(params))))>>

KeyInit ==
    /\ kTool = <<"", "">>
    /\ kParams = <<<<>>, <<>>>>
    /\ kKey = <<<<>>, <<>>>>

\* The bags with the members of p inserted in another order.
Reorderings(p) ==
    {[i \in 1..Len(p) |-> p[f[i]]] : f \in Permutations(1..Len(p))}

\* generateCacheKey is called for two bags with the same members, inserted
\* in any two orders, and the same tool (one pair of calls per behaviour).
KeysOfReorderedBags(tool, p, q) ==
    /\ kTool' = <<tool, tool>>
    /\ kParams' = <<p, q>>
    /\ kKey' = <<generateCacheKey(tool, p), generateCacheKey(tool, q)>>

\* The bags that differ from p in the value of one member.
Revaluings(p) ==
    {[p EXCEPT ![i].v = value] : i \in 1..Len(p), value \in ParamValues} \ {p}

\* generateCacheKey is called for two invocations: tool with bag p, and
\* another tool or a bag that differs from p in one value.
KeysOfTwoInvocations(tool, p, other, q) ==
    /\ kTool' = <<tool, other>>
    /\ kParams' = <<p, q>>
    /\ kKey' = <<generateCacheKey(tool, p), generateCacheKey(other, q)>>

KeyStep ==
    /\ kTool = <<"", "">>
    /\ \/ \E tool \in Tools, p \in ParamBags :
            \E q \in Reorderings(p) : KeysOfReorderedBags(tool, p, q)
       \/ \E tool \in Tools, p \in ParamBags :
            \/ \E q \in Revaluings(p) : KeysOfTwoInvocations(tool, p, tool, q)
            \/ \E other \in Tools \ {tool} : KeysOfTwoInvocations(tool, p, other, p)

KeyNext == KeyStep /\ UNCHANGED <<clientVars, limiterVars, cacheVars, serverVars, connVars>>

(***************************************************************************)
(* CacheService: src/mcp-server/src/services/cache-service.ts              *)
(*                                                                         *)
(* config.redisUrl always has a value (part_002 line 20), so this.redis is *)
(* always set; a Redis command succeeds or throws (server unreachable,     *)
(* retries exhausted, command rejected).  Each of get/set/delete/clear is  *)
(* one step: the Redis command and the code that follows its await.        *)
(***************************************************************************)
NULL == "null"
Results == {"comments_a", "comments_b"}

\* The parameter bags of the calls: two insertion orders of one bag, and
\* another bag.
SrvParams ==
    { <<[k |-> 1, v |-> Num(1)], [k |-> 2, v |-> Num(1)]>>,
      <<[k |-> 2, v |-> Num(1)], [k |-> 1, v |-> Num(1)]>>,
      <<[k |-> 1, v |-> Num(2)]>> }

CacheKeys == {generateCacheKey("get_pr_comments", p) : p \in SrvParams}

\* JSON.stringify(value) and JSON.parse(text) of a handler result.
Serialize(value) == <<"json", value>>
Parse(text) == text[2]

Put(f, k, e) == [x \in (DOMAIN f) \cup {k} |-> IF x = k THEN e ELSE f[x]]
Drop(f, ks) == [x \in (DOMAIN f) \ ks |-> f[x]]
Empty == [x \in {} |-> NULL]

\* A get records what it returned, the <<value, ttl>> of the set of the same
\* key that it follows immediately (or <<>>), and whether the ttl of the last
\* set of the key was over.
NoCall == [op |-> "none", key |-> <<>>, value |-> NULL, ttl |-> 0,
           afterSet |-> <<>>, elapsed |-> FALSE, outcome |-> "none"]

\* A try block without its catch: what was thrown reaches the caller.
AfterCatch_Rethrows(thrown) == IF thrown THEN "raised" ELSE "returned"

\* How a method of the service ends: what is thrown inside its try block is
\* caught and logged, and the method returns (get: 66-69, set: 91-93,
\* delete: 106-108, clear: 121-123).
AfterCatch(thrown) == "returned"

CacheInit ==
    /\ localCache = Empty
    /\ redisStore = Empty
    /\ now = 0
    /\ lastCall = NoCall
    /\ deadline = Empty

LocalFresh(key) == key \in DOMAIN localCache /\ now < localCache[key].expires

\* What get(key) returns; redisOk: redis.get did not throw.
GetResult(key, redisOk) ==
    IF ~redisOk THEN NULL
    ELSE IF key \in DOMAIN redisStore THEN Parse(redisStore[key].text)
    ELSE IF LocalFresh(key) THEN localCache[key].value
    ELSE NULL

\* A get that copies a Redis hit into the in-process tier with a new expiry.
GetWrites_PromotesHit(key, redisOk) ==
    /\ localCache' = IF redisOk /\ key \in DOMAIN redisStore
                     THEN Put(localCache, key, [value |-> Parse(redisStore[key].text),
                                                expires |-> now + cacheTtl])
                     ELSE IF redisOk /\ key \in DOMAIN localCache /\ ~LocalFresh(key)
                     THEN Drop(localCache, {key})
                     ELSE localCache
    /\ UNCHANGED redisStore

\* The writes of get(key): a stale local entry is deleted when it is reached.
GetWrites(key, redisOk) ==
    /\ localCache' = IF redisOk /\ key \notin DOMAIN redisStore
                        /\ key \in DOMAIN localCache /\ ~LocalFresh(key)
                     THEN Drop(localCache, {key})
                     ELSE localCache
    /\ UNCHANGED redisStore

\* get(key), called on the service directly
CacheGet(key, redisOk) ==
    /\ GetWrites(key, redisOk)
    /\ lastCall' = [op |-> "get", key |-> key, value |-> GetResult(key, redisOk), ttl |-> 0,
                    afterSet |-> IF lastCall.op = "set" /\ lastCall.key = key
                                 THEN <<lastCall.value, lastCall.ttl>> ELSE <<>>,
                    elapsed |-> key \in DOMAIN deadline /\ deadline[key] <= now,
                    outcome |-> AfterCatch(~redisOk)]
    /\ UNCHANGED <<now, deadline>>

\* A set that keeps an entry that is there already.
SetWrites_FirstWins(key, value, ttlSeconds, redisOk) ==
    IF redisOk /\ ttlSeconds > 0 /\ key \notin DOMAIN redisStore
    THEN /\ redisStore' = Put(redisStore, key,
                              [text |-> Serialize(value), expires |-> now + ttlSeconds])
         /\ localCache' = Put(localCache, key,
                              [value |-> value, expires |-> now + ttlSeconds])
    ELSE UNCHANGED <<redisStore, localCache>>

\* The writes of set(key, value, ttlSeconds); redisOk: redis.setex did not
\* throw.  SETEX rejects a ttl that is not positive.  When setex throws, the
\* catch block is entered before the in-process tier is written.
SetWrites(key, value, ttlSeconds, redisOk) ==
    IF redisOk /\ ttlSeconds > 0
    THEN /\ redisStore' = Put(redisStore, key,
                              [text |-> Serialize(value), expires |-> now + ttlSeconds])
         /\ localCache' = Put(localCache, key,
                              [value |-> value, expires |-> now + ttlSeconds])
    ELSE UNCHANGED <<redisStore, localCache>>

\* set(key, value, ttlSeconds), called on the service directly
CacheSet(key, value, ttlSeconds, redisOk) ==
    /\ SetWrites(key, value, ttlSeconds, redisOk)
    /\ lastCall' = [op |-> "set", key |-> key, value |-> value, ttl |-> ttlSeconds,
                    afterSet |-> <<>>, elapsed |-> FALSE,
                    outcome |-> AfterCatch(~(redisOk /\ ttlSeconds > 0))]
    /\ deadline' = Put(deadline, key, now + ttlSeconds)
    /\ UNCHANGED now

\* delete(key)
CacheDelete(key, redisOk) ==
    /\ IF redisOk
       THEN /\ redisStore' = Drop(redisStore, {key})
            /\ localCache' = Drop(localCache, {key})
       ELSE UNCHANGED <<redisStore, localCache>>
    /\ lastCall' = [NoCall EXCEPT !.op = "delete", !.key = key,
                                  !.outcome = AfterCatch(~redisOk)]
    /\ UNCHANGED <<now, deadline>>

\* clear()
CacheClear(redisOk) ==
    /\ IF redisOk
       THEN /\ redisStore' = Empty
            /\ localCache' = Empty
       ELSE UNCHANGED <<redisStore, localCache>>
    /\ lastCall' = [NoCall EXCEPT !.op = "clear", !.outcome = AfterCatch(~redisOk)]
    /\ UNCHANGED <<now, deadline>>

\* cleanupLocalCache(), on its interval timer
CleanupLocalCache ==
    /\ \E key \in DOMAIN localCache : now > localCache[key].expires
    /\ localCache' = Drop(localCache, {key \in DOMAIN localCache : now > localCache[key].expires})
    /\ UNCHANGED <<redisStore, now, lastCall, deadline>>

\* A second passes; Redis drops the keys whose time is over.  A call made
\* from now on does not follow the last one immediately.
CacheTick ==
    /\ now < MaxNow
    /\ now' = now + 1
    /\ redisStore' = Drop(redisStore, {key \in DOMAIN redisStore : redisStore[key].expires <= now + 1})
    /\ lastCall' = NoCall
    /\ UNCHANGED <<localCache, deadline>>

CacheStep ==
    \/ \E key \in CacheKeys, value \in Results, ttlSeconds \in 0..MaxTtl, redisOk \in BOOLEAN :
            CacheSet(key, value, ttlSeconds, redisOk)
    \/ \E key \in CacheKeys, redisOk \in BOOLEAN : CacheGet(key, redisOk)
    \/ \E key \in CacheKeys, redisOk \in BOOLEAN : CacheDelete(key, redisOk)
    \/ \E redisOk \in BOOLEAN : CacheClear(redisOk)
    \/ CleanupLocalCache
    \/ CacheTick

CacheNext == CacheStep /\ UNCHANGED <<clientVars, limiterVars, keyVars, serverVars, connVars>>

(***************************************************************************)
(* MCPServer.executeTool: part_002 557-649                                 *)
(*                                                                         *)
(* The limiter of the server is RateLimiter(100, 60): with at most         *)
(* MaxInvocations calls from a full bucket, acquire() debits a token and   *)
(* returns at its first attempt.                                           *)
(***************************************************************************)
Invocations == 1..MaxInvocations
RegisteredTools == Tools
ServerTools == RegisteredTools \cup {"no_such_tool"}

ServerInit ==
    /\ ipc = [i \in Invocations |-> "idle"]
    /\ itool = [i \in Invocations |-> ""]
    /\ iparams = [i \in Invocations |-> <<>>]
    /\ iresult = [i \in Invocations |-> NULL]
    /\ imissed = [i \in Invocations |-> FALSE]
    /\ idoneBefore = [i \in Invocations |-> {}]
    /\ ilookupAt = [i \in Invocations |-> 0]
    /\ istoredAt = [i \in Invocations |-> 0]

Returned(i) == ipc[i] \in {"done", "failed"}

\* executeTool(toolName, params) is called (call i is the next unused entry)
\* and awaits rateLimiter.acquire().
Invoke(i, toolName, params) ==
    /\ ipc[i] = "idle"
    /\ \A j \in Invocations : j < i => ipc[j] # "idle"
    /\ ipc' = [ipc EXCEPT ![i] = "acquiring"]
    /\ itool' = [itool EXCEPT ![i] = toolName]
    /\ iparams' = [iparams EXCEPT ![i] = params]
    /\ idoneBefore' = [idoneBefore EXCEPT ![i] = {j \in Invocations : Returned(j)}]
    /\ UNCHANGED <<iresult, imissed, ilookupAt, istoredAt, cacheVars>>

\* acquire() has returned: the tool is looked up; the cache key is computed
\* and the cache read; a hit is returned, a miss calls the handler.  What
\* cacheService.get would raise is rethrown by the catch block (645-648).
ExecLookup(i, redisOk) ==
    /\ ipc[i] = "acquiring"
    /\ IF itool[i] \notin RegisteredTools
       THEN /\ ipc' = [ipc EXCEPT ![i] = "failed"]
            /\ iresult' = [iresult EXCEPT ![i] = "Tool not found"]
            /\ UNCHANGED <<imissed, ilookupAt, cacheVars>>
       ELSE IF AfterCatch(~redisOk) = "raised"
       THEN /\ ipc' = [ipc EXCEPT ![i] = "failed"]
            /\ iresult' = [iresult EXCEPT ![i] = "cache error"]
            /\ UNCHANGED <<imissed, ilookupAt, cacheVars>>
       ELSE LET cacheKey == generateCacheKey(itool[i], iparams[i])
                cached == GetResult(cacheKey, redisOk)
            IN  /\ GetWrites(cacheKey, redisOk)
                /\ UNCHANGED <<now, lastCall, deadline>>
                /\ ilookupAt' = [ilookupAt EXCEPT ![i] = now]
                /\ IF cached # NULL
                   THEN /\ ipc' = [ipc EXCEPT ![i] = "done"]
                        /\ iresult' = [iresult EXCEPT ![i] = cached]
                        /\ UNCHANGED imissed
                   ELSE /\ ipc' = [ipc EXCEPT ![i] = "calling"]
                        /\ imissed' = [imissed EXCEPT ![i] = TRUE]
                        /\ UNCHANGED iresult
    /\ UNCHANGED <<itool, iparams, idoneBefore, istoredAt>>

\* The handler of the tool returns result: it is stored with
\* cacheService.set(cacheKey, result, config.cacheTtl) and returned.
HandlerReturns(i, result, redisOk) ==
    /\ ipc[i] = "calling"
    /\ SetWrites(generateCacheKey(itool[i], iparams[i]), result, cacheTtl, redisOk)
    /\ UNCHANGED <<now, lastCall, deadline>>
    /\ IF AfterCatch(~redisOk) = "raised"
       THEN /\ ipc' = [ipc EXCEPT ![i] = "failed"]
            /\ iresult' = [iresult EXCEPT ![i] = "cache error"]
       ELSE /\ ipc' = [ipc EXCEPT ![i] = "done"]
            /\ iresult' = [iresult EXCEPT ![i] = result]
    /\ istoredAt' = [istoredAt EXCEPT ![i] = now]
    /\ UNCHANGED <<itool, iparams, imissed, idoneBefore, ilookupAt>>

\* The handler of the tool throws; executeTool logs and rethrows.
HandlerThrows(i) ==
    /\ ipc[i] = "calling"
    /\ ipc' = [ipc EXCEPT ![i] = "failed"]
    /\ iresult' = [iresult EXCEPT ![i] = "handler error"]
    /\ UNCHANGED <<itool, iparams, imissed, idoneBefore, ilookupAt, istoredAt, cacheVars>>

ServerStep ==
    \/ \E i \in Invocations, toolName \in ServerTools, params \in SrvParams :
            Invoke(i, toolName, params)
    \/ \E i \in Invocations, redisOk \in BOOLEAN : ExecLookup(i, redisOk)
    \/ \E i \in Invocations, result \in Results, redisOk \in BOOLEAN :
            HandlerReturns(i, result, redisOk)
    \/ \E i \in Invocations : HandlerThrows(i)
    \/ CleanupLocalCache /\ UNCHANGED serverVars
    \/ CacheTick /\ UNCHANGED serverVars

ServerNext == ServerStep /\ UNCHANGED <<clientVars, limiterVars, keyVars, connVars>>

\* How many times the handler of toolName was invoked with these parameters.
HandlerCalls(toolName, params) ==
    Cardinality({i \in Invocations :
                    imissed[i] /\ itool[i] = toolName /\ SamePairs(iparams[i], params)})

(***************************************************************************)
(* The server runtime: wss.on('connection') and the HTTP endpoint of       *)
(* index.ts (part_004), MCPServer.handleWebSocketMessage, handleSubscription,*)
(* handleWebSocketDisconnect and broadcast (part_002 654-746).             *)
(*                                                                         *)
(* A request is a caller of the limiter of the server (new RateLimiter(100,*)
(* 60), here a limiter within the bounds).  What executeTool does between  *)
(* acquire() and its return is the subject of SpecServer; here it returns  *)
(* a result or throws.  ws.send on an open transport does not throw: a     *)
(* send that fails loses its frame; on a transport that is not open it     *)
(* drops the frame.                                                        *)
(***************************************************************************)
Conns == 1..MaxConns
HTTP == 0
Credentials == {"missing", "invalid", "valid"}
Payloads == {"new_comments", "review_complete"}
\* The tool names of the requests: one that is registered, one that is not.
DispatchTools == {"get_pr_comments", "no_such_tool"}

\* ERROR_CODES (jest.config.js 94-103) and the close code of line 98
INTERNAL_ERROR == 5000
NOT_FOUND == 4004
POLICY_VIOLATION == 1008

NoFrame == [type |-> "none", id |-> 0, code |-> 0, message |-> ""]

ConnInit ==
    /\ conn = [c \in Conns |-> "none"]
    /\ cred = [c \in Conns |-> "none"]
    /\ closeCode = [c \in Conns |-> 0]
    /\ clients = <<>>
    /\ csub = [c \in Conns |-> FALSE]
    /\ inbox = [c \in Conns |-> <<>>]
    /\ broadcasts = 0
    /\ bresult = "none"
    /\ bfailed = {}
    /\ rstage = [r \in Callers |-> "idle"]
    /\ rconn = [r \in Callers |-> HTTP]
    /\ rmethod = [r \in Callers |-> ""]
    /\ rframe = [r \in Callers |-> NoFrame]

\* validateToken(token): jwt.verify succeeds (part_001 84-91)
validateToken(token) == token = "valid"

\* A connection handler that attaches the handlers whatever the token is.
ConnAccept_NoGate(c, token) ==
    /\ conn[c] = "none"
    /\ \A d \in Conns : d < c => conn[d] # "none"
    /\ cred' = [cred EXCEPT ![c] = token]
    /\ conn' = [conn EXCEPT ![c] = "open"]
    /\ inbox' = [inbox EXCEPT ![c] = <<"connected">>]
    /\ UNCHANGED <<closeCode, clients, csub, broadcasts, bresult, bfailed,
                   rstage, rconn, rmethod, rframe, limiterVars>>

\* wss.on('connection'): connection c (the next one) arrives with a token.
\* Without a valid token it is closed with 1008 and gets no handler;
\* otherwise the handlers are attached and the welcome frame is sent.
ConnAccept(c, token) ==
    /\ conn[c] = "none"
    /\ \A d \in Conns : d < c => conn[d] # "none"
    /\ cred' = [cred EXCEPT ![c] = token]
    /\ IF token = "missing" \/ ~validateToken(token)
       THEN /\ conn' = [conn EXCEPT ![c] = "rejected"]
            /\ closeCode' = [closeCode EXCEPT ![c] = POLICY_VIOLATION]
            /\ UNCHANGED inbox
       ELSE /\ conn' = [conn EXCEPT ![c] = "open"]
            /\ inbox' = [inbox EXCEPT ![c] = <<"connected">>]
            /\ UNCHANGED closeCode
    /\ UNCHANGED <<clients, csub, broadcasts, bresult, bfailed,
                   rstage, rconn, rmethod, rframe, limiterVars>>

\* The transport of an open connection goes down: readyState is no longer
\* OPEN, the 'close' event has not been handled yet.
ConnClosing(c) ==
    /\ conn[c] = "open"
    /\ conn' = [conn EXCEPT ![c] = "closing"]
    /\ UNCHANGED <<cred, closeCode, clients, csub, inbox, broadcasts, bresult, bfailed,
                   rstage, rconn, rmethod, rframe, limiterVars>>

\* ws.on('close'): handleWebSocketDisconnect deletes the connection from
\* this.clients.
ConnClosed(c) ==
    /\ conn[c] = "closing"
    /\ conn' = [conn EXCEPT ![c] = "closed"]
    /\ clients' = SelectSeq(clients, LAMBDA d : d # c)
    /\ UNCHANGED <<cred, closeCode, csub, inbox, broadcasts, bresult, bfailed,
                   rstage, rconn, rmethod, rframe, limiterVars>>

\* A subscribe frame arrives on a connection with handlers.  With params,
\* handleSubscription sets this.clients[ws] (Map.set keeps the place of a key
\* that is there already).  Without, params.userId throws before the set, and
\* the catch of ws.on('message') sends an error frame that has no id.
RecvSubscribe(c, hasParams) ==
    /\ conn[c] = "open"
    /\ csub' = [csub EXCEPT ![c] = TRUE]
    /\ IF hasParams
       THEN /\ clients' = IF c \in Range(clients) THEN clients ELSE Append(clients, c)
            /\ UNCHANGED inbox
       ELSE /\ inbox' = [inbox EXCEPT ![c] = IF Len(@) < MaxInbox THEN Append(@, "error") ELSE @]
            /\ UNCHANGED clients
    /\ UNCHANGED <<conn, cred, closeCode, broadcasts, bresult, bfailed,
                   rstage, rconn, rmethod, rframe, limiterVars>>

\* executeTool is entered for request r: await this.rateLimiter.acquire().
Dispatch(r, from, method) ==
    /\ rstage[r] = "idle"
    /\ Acquire(r, 1)
    /\ rstage' = [rstage EXCEPT ![r] = "dispatched"]
    /\ rconn' = [rconn EXCEPT ![r] = from]
    /\ rmethod' = [rmethod EXCEPT ![r] = method]
    /\ UNCHANGED <<conn, cred, closeCode, clients, csub, inbox, broadcasts, bresult,
                   bfailed, rframe>>

\* A request frame arrives on a connection with handlers
\* (handleWebSocketMessage, case 'request'); its correlation id is r.
RecvRequest(c, r, method) ==
    /\ conn[c] = "open"
    /\ Dispatch(r, c, method)

\* POST /mcp/tools/:toolName, past the auth middleware; the id of its body is r.
HttpRequest(r, method) == Dispatch(r, HTTP, method)

\* The reply to request r: a response frame with the result, or an error
\* frame with code INTERNAL_ERROR and the message of what was thrown
\* (part_002 661-685; the HTTP bodies of part_004 54-68 hold the same).
ReplyFrame(r, thrown) ==
    IF thrown = ""
    THEN [type |-> "response", id |-> r, code |-> 0, message |-> ""]
    ELSE [type |-> "error", id |-> r, code |-> INTERNAL_ERROR, message |-> thrown]

\* What executeTool throws for request r ("" when it returns a result):
\* 'Tool not found' for a name that is not registered (560-563), else what
\* the handler throws, if it does.
Thrown(r, handlerOk) ==
    IF rmethod[r] \notin RegisteredTools THEN "Tool not found"
    ELSE IF handlerOk THEN "" ELSE "handler error"

\* acquire() has returned for request r and executeTool returns or throws;
\* the reply is sent (over HTTP, or with ws.send, which drops the frame when
\* the transport is not open).
ExecSettle(r, handlerOk) ==
    /\ rstage[r] = "dispatched"
    /\ lpc[r] = "done"
    /\ IF rconn[r] = HTTP \/ conn[rconn[r]] = "open"
       THEN /\ rstage' = [rstage EXCEPT ![r] = "replied"]
            /\ rframe' = [rframe EXCEPT ![r] = ReplyFrame(r, Thrown(r, handlerOk))]
       ELSE /\ rstage' = [rstage EXCEPT ![r] = "dropped"]
            /\ UNCHANGED rframe
    /\ UNCHANGED <<conn, cred, closeCode, clients, csub, inbox, broadcasts, bresult,
                   bfailed, rconn, rmethod, limiterVars>>

\* The connections broadcast calls send for: the registered ones whose
\* readyState is OPEN.
Eligible == {c \in Range(clients) : conn[c] = "open"}

\* A broadcast whose loop ends, raising, at the first send that fails.
Broadcast_StopsAtFailure(payload, failing) ==
    /\ broadcasts < MaxBroadcasts
    /\ failing \subseteq Eligible
    /\ broadcasts' = broadcasts + 1
    /\ inbox' = [c \in Conns |->
                    IF c \in Eligible
                       /\ \A i \in 1..Len(clients), j \in 1..Len(clients) :
                             (clients[j] = c /\ clients[i] \in failing) => j < i
                    THEN Append(inbox[c], payload) ELSE inbox[c]]
    /\ bresult' = IF failing = {} THEN "returned" ELSE "raised"
    /\ bfailed' = failing
    /\ UNCHANGED <<conn, cred, closeCode, clients, csub, rstage, rconn, rmethod, rframe,
                   limiterVars>>

\* broadcast(message): the message is sent to every registered connection
\* whose readyState is OPEN; the sends to the connections in failing lose
\* their frame.
Broadcast(payload, failing) ==
    /\ broadcasts < MaxBroadcasts
    /\ failing \subseteq Eligible
    /\ broadcasts' = broadcasts + 1
    /\ inbox' = [c \in Conns |-> IF c \in Eligible /\ c \notin failing
                                 THEN Append(inbox[c], payload) ELSE inbox[c]]
    /\ bresult' = "returned"
    /\ bfailed' = failing
    /\ UNCHANGED <<conn, cred, closeCode, clients, csub, rstage, rconn, rmethod, rframe,
                   limiterVars>>

\* Connections, subscriptions and broadcast.
ConnStep ==
    \/ \E c \in Conns, token \in Credentials : ConnAccept(c, token)
    \/ \E c \in Conns : ConnClosing(c)
    \/ \E c \in Conns : ConnClosed(c)
    \/ \E c \in Conns, hasParams \in BOOLEAN : RecvSubscribe(c, hasParams)
    \/ \E payload \in Payloads, failing \in SUBSET Conns : Broadcast(payload, failing)

ConnNext == ConnStep /\ UNCHANGED <<clientVars, keyVars, cacheVars, serverVars>>

\* Requests over the connections, through the limiter, and their replies.
DispatchStep ==
    \/ NewRateLimiter(serverCapacity, serverRate) /\ UNCHANGED connVars
    \/ \E c \in Conns, token \in Credentials : ConnAccept(c, token)
    \/ \E c \in Conns : ConnClosing(c)
    \/ \E c \in Conns, r \in Callers, method \in DispatchTools : RecvRequest(c, r, method)
    \/ \E r \in Callers : Retry(r) /\ UNCHANGED connVars
    \/ Tick /\ UNCHANGED connVars
    \/ \E r \in Callers, handlerOk \in BOOLEAN : ExecSettle(r, handlerOk)

DispatchNext == DispatchStep /\ UNCHANGED <<clientVars, keyVars, cacheVars, serverVars>>

\* What arrives at the server, connections with their frames and HTTP
\* requests, at one instant of the clock.
GateStep ==
    \/ NewRateLimiter(serverCapacity, serverRate) /\ UNCHANGED connVars
    \/ \E c \in Conns, token \in Credentials : ConnAccept(c, token)
    \/ \E c \in Conns : ConnClosing(c)
    \/ \E c \in Conns : ConnClosed(c)
    \/ \E c \in Conns, hasParams \in BOOLEAN : RecvSubscribe(c, hasParams)
    \/ \E c \in Conns, r \in Callers, method \in DispatchTools : RecvRequest(c, r, method)
    \/ \E r \in Callers, method \in DispatchTools : HttpRequest(r, method)
    \/ \E r \in Callers, handlerOk \in BOOLEAN : ExecSettle(r, handlerOk)

GateNext == GateStep /\ UNCHANGED <<clientVars, keyVars, cacheVars, serverVars>>

Init == ClientInit /\ LimiterInit /\ KeyInit /\ CacheInit /\ ServerInit /\ ConnInit

SpecClient == Init /\ [][ClientNext]_vars

SpecLimiter == Init /\ [][LimiterNext]_vars

SpecKey == Init /\ [][KeyNext]_vars

SpecCache == Init /\ [][CacheNext]_vars

SpecServer == Init /\ [][ServerNext]_vars

SpecConn == Init /\ [][ConnNext]_vars

SpecDispatch == Init /\ [][DispatchNext]_vars

SpecGate == Init /\ [][GateNext]_vars

\* Time advances, every due timer fires and every call of executeTool that
\* is past the limiter returns or throws.
FairSpecDispatch ==
    /\ SpecDispatch
    /\ WF_vars(Tick /\ UNCHANGED <<clientVars, keyVars, cacheVars, serverVars, connVars>>)
    /\ \A r \in Callers :
          /\ WF_vars(Retry(r) /\ UNCHANGED <<clientVars, keyVars, cacheVars, serverVars, connVars>>)
          /\ WF_vars((\E handlerOk \in BOOLEAN : ExecSettle(r, handlerOk))
                        /\ UNCHANGED <<clientVars, keyVars, cacheVars, serverVars>>)

\* Time advances and every due timer fires.
FairSpecLimiter ==
    /\ SpecLimiter
    /\ WF_vars(Tick /\ UNCHANGED <<clientVars, keyVars, cacheVars, serverVars, connVars>>)
    /\ \A c \in Callers : WF_vars(Retry(c) /\ UNCHANGED <<clientVars, keyVars, cacheVars, serverVars, connVars>>)

\* Every armed timeout of sendRequest fires (setTimeout, requestTimeout ms).
FairSpecClient ==
    /\ SpecClient
    /\ \A id \in RequestIds :
          WF_vars(RequestTimeout(id)
                    /\ UNCHANGED <<limiterVars, keyVars, cacheVars, serverVars, connVars>>)


(***************************************************************************)
(* Claims about the client runtime, checked under SpecClient.              *)
(***************************************************************************)

\* C1 (request correlation): when two requests a and b are in flight and a
\* response frame for a arrives, the caller of a is resolved and only a's
\* entry leaves the table; b keeps its entry, its timeout and stays pending.
C1_ResponseSettlesOnlyItsRequest ==
    [][\A t \in Transports, a \in RequestIds, b \in RequestIds :
          (a # b /\ a \in pendingRequests /\ b \in pendingRequests
                 /\ DeliverFrame(t, a, "response"))
          => /\ status[a] = "pending" /\ status'[a] = "resolved"
             /\ pendingRequests' = pendingRequests \ {a}
             /\ status[b] = "pending" /\ status'[b] = "pending"
             /\ b \in reqTimer']_vars

\* Request 2 was sent while request 1 was in flight, its response has
\* arrived, and request 1 is still pending with its entry.
C1_Witness ==
    /\ status[2] = "resolved"
    /\ status[1] = "pending"
    /\ 1 \in pendingRequests
    /\ 1 \in reqTimer

\* C2 (timeout): when the timeout of a pending request fires its caller is
\* rejected with Timeout and its entry is gone; a reply frame for that id
\* that arrives later settles nothing and changes no field of the client.
C2_TimeoutRejectsAndLateReplyIsNoOp ==
    /\ [][\A id \in RequestIds :
            (status[id] = "pending" /\ RequestTimeout(id))
            => /\ status'[id] = "rejected_timeout"
               /\ id \notin pendingRequests'
               /\ id \notin reqTimer']_vars
    /\ [][\A t \in Transports, id \in RequestIds, type \in {"response", "error"} :
            (status[id] = "rejected_timeout" /\ DeliverFrame(t, id, type))
            => /\ UNCHANGED <<status, pendingRequests, reqTimer, isConnected,
                              reconnectAttempts, reconnectTimers>>
               /\ ws'.state = ws.state]_vars
    /\ [](\A id \in RequestIds :
            status[id] = "rejected_timeout" => id \notin pendingRequests)

\* A request was rejected by its timeout while its reply is still on its way
\* on an open transport: the late reply can arrive.
C2_Witness ==
    \E t \in Transports, id \in RequestIds :
        /\ status[id] = "rejected_timeout"
        /\ t.sock.state = "open"
        /\ id \in t.sock.frames

\* C20 (sendRequest while disconnected): a call for a tool other than
\* get_pr_comments is rejected at once with 'Not connected', a call for
\* get_pr_comments goes to the HTTP path; neither stores an in-flight entry,
\* arms a timeout or writes a frame, then or later.
C20_DisconnectedSendLeavesNoEntry ==
    /\ [][\A method \in Methods :
            SendWhileDisconnected(method)
            => /\ status'[nextId] = IF method = "get_pr_comments"
                                    THEN "http" ELSE "rejected_notconnected"
               /\ UNCHANGED <<pendingRequests, reqTimer, ws, stale>>]_vars
    /\ [](\A id \in RequestIds :
            status[id] \in {"http", "resolved_http", "rejected_http", "rejected_notconnected"}
                => id \notin pendingRequests /\ id \notin reqTimer)

\* While disconnected, one call was rejected with 'Not connected' and one
\* call for get_pr_comments was answered over HTTP.
C20_Witness ==
    \E a \in RequestIds, b \in RequestIds :
        /\ status[a] = "rejected_notconnected"
        /\ status[b] = "resolved_http"
        /\ pendingRequests = {}

\* C3 (reconnect bound): once attemptReconnect has found the maximum retry
\* count reached, no automatic reconnect attempt is made until connect() is
\* called explicitly.
C3_NoReconnectAfterMax ==
    [][maxExceeded => ~ReconnectTimerFires]_vars


\* C21 (disconnect is idempotent and resets): a disconnect() that finds a
\* transport leaves no transport, an empty in-flight table of which it has
\* settled no entry, and the reconnect attempt counter at its initial value;
\* a disconnect() right after it changes nothing.
C21_DisconnectClearsAndResets ==
    /\ [][(Disconnect /\ ws.state # "null")
            => /\ ws'.state = "null"
               /\ ~isConnected'
               /\ pendingRequests' = {}
               /\ status' = status
               /\ reconnectAttempts' = 0]_vars
    /\ [][(Disconnect /\ ws.state = "null") => UNCHANGED clientVars]_vars

\* C22 (closure does not fail requests): the close of a transport, a failed
\* handshake and the reconnect that follows leave the in-flight table, the
\* request timeouts and the callers as they are; a pending caller is settled
\* only by its own timeout or by a reply frame with its id.
C22_ClosureLeavesRequestsPending ==
    /\ [][((\E t \in Transports : SockClose(t) \/ SockFail(t) \/ SockOpen(t))
             \/ ReconnectTimerFires)
            => UNCHANGED <<pendingRequests, reqTimer, status>>]_vars
    /\ [][\A id \in RequestIds :
            (status[id] = "pending" /\ status'[id] # "pending")
                => \/ RequestTimeout(id)
                   \/ \E t \in Transports, type \in {"response", "error"} :
                         DeliverFrame(t, id, type)]_vars

\* A request is still pending, with its entry and its timeout, on a client
\* that has reconnected: its frame went with the transport that closed.
C22_Witness ==
    \E id \in RequestIds :
        /\ status[id] = "pending"
        /\ id \in pendingRequests /\ id \in reqTimer
        /\ isConnected /\ ws.state = "open" /\ id \notin ws.frames
        /\ stale = EmptyBag

\* What the caller of a sendRequest over the transport has observed once its
\* promise is settled.
SettledOutcomes == {"resolved", "rejected_error", "rejected_timeout", "rejected_send"}

\* C23 (entry lifecycle): an id is given to one request only; the caller of
\* a request is settled once, by the first of its response, its error frame
\* and its timeout: once settled, its outcome stays, it has no entry and no
\* armed timeout, and a frame for an id that has no entry changes nothing.
C23_SettledOnceLaterEventsNoOp ==
    /\ [](\A id \in RequestIds :
            status[id] \in SettledOutcomes
                => id \notin pendingRequests /\ id \notin reqTimer)
    /\ [](\A id \in RequestIds : id >= nextId => id \notin pendingRequests \cup reqTimer)
    /\ [][\A id \in RequestIds :
            status[id] \in SettledOutcomes => status'[id] = status[id]]_vars
    /\ [][\A t \in Transports, id \in RequestIds, type \in {"response", "error"} :
            (id \notin pendingRequests /\ DeliverFrame(t, id, type))
                => UNCHANGED <<pendingRequests, reqTimer, status>>]_vars

\* One request was resolved by its response and another rejected by its
\* timeout, whose reply is still on its way.
C23_Witness ==
    \E a, b \in RequestIds, t \in Transports :
        /\ status[a] = "resolved"
        /\ status[b] = "rejected_timeout"
        /\ t.sock.state = "open" /\ b \in t.sock.frames

\* C27 (disconnect is final): after disconnect(), and until connect() is
\* called by the extension, the client has no current transport, no closure
\* of a transport arms a reconnect timer, and no transport is made.
C27_StaysDisconnectedAfterDisconnect ==
    /\ [][ws.state = "null" => reconnectTimers' <= reconnectTimers]_vars
    /\ [][(ws.state = "null" /\ ws'.state # "null") => Connect]_vars

\* C28 (one transport, one timer): the client never has more than one
\* transport that is open or being opened, nor more than one reconnect
\* timer pending.
C28_OneTransportOneTimer ==
    /\ (IF ws.state \in {"connecting", "open"} THEN 1 ELSE 0)
         + BagCardinality([r \in {s \in BagToSet(stale) : s.state \in {"connecting", "open"}}
                              |-> CopiesIn(r, stale)]) <= 1
    /\ reconnectTimers <= 1

\* C30 (every request settles): a request sent while connected has its
\* timeout armed for as long as its promise is pending, whatever happens to
\* its entry and to the transport, and its promise is eventually settled.
C30_EveryRequestSettles ==
    /\ [](\A id \in RequestIds : status[id] = "pending" => id \in reqTimer)
    /\ \A id \in RequestIds :
          (status[id] = "pending") ~> (status[id] \in SettledOutcomes)

\* One request was rejected by its timeout; another is pending with its
\* timeout armed after disconnect() has cleared the table.
C30_Witness ==
    \E a, b \in RequestIds :
        /\ status[a] = "rejected_timeout"
        /\ status[b] = "pending" /\ b \notin pendingRequests /\ b \in reqTimer
        /\ ws.state = "null"

(***************************************************************************)
(* Claims about the RateLimiter, checked under SpecLimiter and, for the    *)
(* two about termination, under FairSpecLimiter.                           *)
(***************************************************************************)
Completed(n) == {c \in Callers : lpc[c] = "done" /\ need[c] = n}

\* C5 (token bounds, no double spend): in every state 0 <= tokens <= capacity,
\* the bucket holds exactly what was put in minus what was taken out, and so
\* the tokens debited never exceed the initial capacity plus the refills.
C5_TokensBoundedNoDoubleSpend ==
    /\ 0 <= tokens
    /\ tokens <= capacity
    /\ tokens = capacity + credited - spent
    /\ spent <= capacity + credited

\* Callers raced for the bucket: two have completed, a refill has credited
\* tokens, the bucket is empty and a third caller is waiting.
C5_Witness ==
    /\ Cardinality({c \in Callers : lpc[c] = "done"}) >= 2
    /\ credited >= 1
    /\ tokens = 0
    /\ \E c \in Callers : lpc[c] = "waiting"

\* C6 (acquire only delays): every acquire(n) call with 1 <= n <= capacity
\* eventually completes, whatever the other callers of the limiter do (here:
\* as long as none of them asks for more than the capacity).
C6_AcquireEventuallyCompletes ==
    \/ <>(\E d \in Callers : need[d] > capacity)
    \/ \A c \in Callers : (lpc[c] = "waiting") ~> (lpc[c] = "done")

\* C7 as stated (capacity 2, refill 2 per period): no more than 2 acquire(1)
\* calls complete before one full period (1 second) has elapsed.
C7_AtMostTwoBeforeOnePeriod ==
    (capacity = 2 /\ refillRate = 2 /\ clock < refillPeriod)
        => Cardinality(Completed(1)) <= 2

\* C7 as amended (capacity 2, refill 2 per period): no more than 2 acquire(1)
\* calls complete before the time one token takes to refill (half a period)
\* has elapsed; a 3rd completes only after that delay.
C7_AtMostTwoBeforeOneTokenRefills ==
    (capacity = 2 /\ refillRate = 2 /\ clock * refillRate < refillPeriod)
        => Cardinality(Completed(1)) <= 2

\* The 3rd acquire(1) has completed, when the time to refill one token had
\* elapsed and before the period was over.
C7_Witness ==
    /\ capacity = 2 /\ refillRate = 2
    /\ Cardinality(Completed(1)) = 3
    /\ clock * refillRate = refillPeriod
    /\ clock < refillPeriod

\* What refill has credited, with what a refill at this instant would credit.
LazyCredit == credited + Floor(sinceRefill * refillRate, refillPeriod)

\* C24 (refill depends on elapsed time only): as long as no refill time is
\* lost to a full bucket, the tokens credited since the constructor ran
\* (refill being lazy: with those that a refill now would credit) are the
\* refill rate times the elapsed time, rounded down, within one token,
\* however many acquire calls were made in between.
C24_CreditFollowsElapsedTime ==
    (/\ capacity > 0
     /\ ~clamped
     /\ tokens + Floor(sinceRefill * refillRate, refillPeriod) <= capacity)
        => /\ LazyCredit >= Floor(clock * refillRate, refillPeriod) - 1
           /\ clock < refillPeriod => LazyCredit <= Floor(clock * refillRate, refillPeriod) + 1

\* C8 (more than the capacity): an acquire(n) call with n > capacity
\* eventually completes.
C8_LargeAcquireEventuallyCompletes ==
    \A c \in Callers :
        (lpc[c] = "waiting" /\ need[c] > capacity) ~> (lpc[c] = "done")


(***************************************************************************)
(* Claims about the cache fingerprint, checked under SpecKey.              *)
(***************************************************************************)

\* C9 (fingerprint determinism): two parameter bags that are equal as sets
\* of key/value pairs get the same cache key for the same tool, whatever
\* the insertion orders of their keys.
C9_FingerprintIgnoresInsertionOrder ==
    (kTool[1] = kTool[2] /\ SamePairs(kParams[1], kParams[2])) => kKey[1] = kKey[2]

\* Keys were generated for two bags with the same two members, inserted in
\* opposite orders.
C9_Witness ==
    /\ kTool[1] = kTool[2] /\ kTool[1] \in Tools
    /\ Len(kParams[1]) = 2
    /\ SamePairs(kParams[1], kParams[2])
    /\ kParams[1] # kParams[2]
    /\ kKey[1] = generateCacheKey(kTool[1], kParams[1])
    /\ kKey[2] = generateCacheKey(kTool[2], kParams[2])


\* C29 (fingerprint injectivity): two invocations get the same fingerprint
\* only if they name the same tool and their parameter bags hold the same
\* pairs, the contents of nested objects included.
C29_SameFingerprintSameInvocation ==
    (kTool[1] # "" /\ kKey[1] = kKey[2])
        => (kTool[1] = kTool[2] /\ SamePairs(kParams[1], kParams[2]))

(***************************************************************************)
(* Claims about the cache, checked under SpecCache.                        *)
(***************************************************************************)

\* C10 (cache round trip): for a positive ttl, get(k) called immediately
\* after set(k, v, ttl) returns v; and get(k) called when the ttl of the last
\* set(k, ..) is over returns absent.
C10_SetThenGetRoundTrips ==
    lastCall.op = "get" =>
        /\ (lastCall.afterSet # <<>> /\ lastCall.afterSet[2] >= 1)
                => lastCall.value = lastCall.afterSet[1]
        /\ lastCall.elapsed => lastCall.value = NULL

\* C11 (cache read fallback): when get(key) misses in Redis or its read
\* fails, it returns the local entry of key if there is one and it is
\* unexpired, and otherwise returns absent and leaves no local entry of key.
C11_GetFallsBackToLocal ==
    [][\A key \in CacheKeys, redisOk \in BOOLEAN :
          (CacheGet(key, redisOk) /\ (~redisOk \/ key \notin DOMAIN redisStore))
              => IF LocalFresh(key)
                 THEN lastCall'.value = localCache[key].value
                 ELSE lastCall'.value = NULL /\ key \notin DOMAIN localCache']_vars

\* C12 (cache write path): after set(key, value, ttl) with a positive ttl has
\* returned, the in-process tier holds an entry of key with that value,
\* whether the Redis write succeeded or failed.
C12_SetAlwaysWritesLocal ==
    (lastCall.op = "set" /\ lastCall.ttl >= 1)
        => /\ lastCall.key \in DOMAIN localCache
           /\ localCache[lastCall.key].value = lastCall.value

\* C13 (cache failure containment): get, set, delete and clear return
\* normally whatever Redis does, and no call of executeTool fails with an
\* error of the cache.
C13_CacheNeverRaises ==
    /\ lastCall.outcome # "raised"
    /\ \A i \in Invocations : iresult[i] # "cache error"

\* set(key, value, ttl) has returned normally although its Redis write
\* failed (a positive ttl, and no entry was written).
C13_Witness ==
    /\ lastCall.op = "set" /\ lastCall.ttl >= 1
    /\ lastCall.outcome = "returned"
    /\ lastCall.key \notin DOMAIN localCache
    /\ lastCall.key \notin DOMAIN redisStore

(***************************************************************************)
(* Claims about executeTool, checked under SpecServer.                     *)
(***************************************************************************)

\* C4 (cache hit short-circuit): after a call that missed the cache and
\* whose handler succeeded has returned, a call with the same tool and the
\* same parameters that looks the cache up within the ttl window does not
\* invoke the handler (the count stays at 1) and returns the same result.
C4_SecondCallHitsCache ==
    \A i \in Invocations, j \in Invocations :
        ( /\ ipc[i] = "done" /\ imissed[i]
          /\ i \in idoneBefore[j]
          /\ ipc[j] \notin {"idle", "acquiring"}
          /\ itool[j] = itool[i] /\ SamePairs(iparams[j], iparams[i])
          /\ ilookupAt[j] < istoredAt[i] + cacheTtl )
        => /\ ~imissed[j]
           /\ HandlerCalls(itool[i], iparams[i]) = 1
           /\ iresult[j] = iresult[i]

\* The cache key of call i.
KeyOf(i) == generateCacheKey(itool[i], iparams[i])

\* C25 (no single flight): a call whose lookup finds nothing misses and goes
\* on to the handler also while another call with the same fingerprint is
\* with its handler; and each of them, when its handler returns and its
\* store is accepted, overwrites what is stored: the last write wins.
C25_ConcurrentDuplicatesBothMissLastWriteWins ==
    /\ [][\A i \in Invocations, j \in Invocations, redisOk \in BOOLEAN :
            ( /\ i # j /\ ipc[j] = "calling" /\ itool[i] \in RegisteredTools
              /\ KeyOf(i) = KeyOf(j) /\ GetResult(KeyOf(i), redisOk) = NULL
              /\ ExecLookup(i, redisOk) )
                => ipc'[i] = "calling" /\ imissed'[i]]_vars
    /\ [][\A i \in Invocations, result \in Results :
            HandlerReturns(i, result, TRUE)
                => /\ Parse(redisStore'[KeyOf(i)].text) = result
                   /\ localCache'[KeyOf(i)].value = result]_vars

\* Two calls with the same fingerprint, neither made after the other had
\* returned, have both missed and both got a result from the handler, not
\* the same one; the cache holds one of the two.
C25_Witness ==
    \E i \in Invocations, j \in Invocations :
        /\ i # j /\ KeyOf(i) = KeyOf(j)
        /\ i \notin idoneBefore[j] /\ j \notin idoneBefore[i]
        /\ imissed[i] /\ imissed[j]
        /\ ipc[i] = "done" /\ ipc[j] = "done"
        /\ iresult[i] # iresult[j]
        /\ KeyOf(i) \in DOMAIN redisStore
        /\ Parse(redisStore[KeyOf(i)].text) \in {iresult[i], iresult[j]}

\* Every entry of tier' was in tier, as it is: nothing was created,
\* rewritten or given a later expiry (entries may have gone).
NothingWritten(tier, tierAfter) ==
    \A k \in DOMAIN tierAfter : k \in DOMAIN tier /\ tierAfter[k] = tier[k]

\* C26 (entry creation): an entry is created or rewritten only by the store
\* of a call that missed the cache and whose handler returned; a call whose
\* tool is not registered or whose handler throws, and a call that hits the
\* cache, write no entry and extend no expiry.
C26_EntriesOnlyFromMissAndSuccess ==
    /\ [][\/ \E i \in Invocations, result \in Results, redisOk \in BOOLEAN :
                imissed[i] /\ HandlerReturns(i, result, redisOk)
          \/ /\ NothingWritten(localCache, localCache')
             /\ NothingWritten(redisStore, redisStore')]_vars
    /\ [][\A i \in Invocations :
            (HandlerThrows(i) \/ (itool[i] \notin RegisteredTools /\ ExecLookup(i, TRUE)))
                => UNCHANGED <<localCache, redisStore>>]_vars

\* A call has hit, later than it was stored, the entry that an earlier call
\* created, and the entry is as it was stored.
C26_Witness ==
    \E i \in Invocations, j \in Invocations :
        /\ ipc[i] = "done" /\ imissed[i]
        /\ ipc[j] = "done" /\ ~imissed[j] /\ KeyOf(j) = KeyOf(i)
        /\ ilookupAt[j] > istoredAt[i]
        /\ KeyOf(i) \in DOMAIN redisStore
        /\ redisStore[KeyOf(i)].expires = istoredAt[i] + cacheTtl
        /\ KeyOf(i) \in DOMAIN localCache
        /\ localCache[KeyOf(i)].expires = istoredAt[i] + cacheTtl

(***************************************************************************)
(* Claims about requests and their replies: C14 is checked under SpecGate, *)
(* C16 under FairSpecDispatch.                                             *)
(***************************************************************************)

\* C14 (dispatcher NotFound): the reply to a request for a tool name that
\* is not in the registry is an error whose kind is NOT_FOUND, over a
\* connection (error frame) and over HTTP (error body).
C14_UnknownToolFailsWithNotFound ==
    \A r \in Callers :
        (rstage[r] = "replied" /\ rmethod[r] \notin RegisteredTools)
            => /\ rframe[r].type = "error"
               /\ rframe[r].code = NOT_FOUND

\* C16 (one reply per request): every request frame received on an
\* authenticated connection that stays open is answered by one reply frame
\* with the id of the request: a response frame if the dispatch succeeded, an
\* error frame with a kind and a message if it failed.
C16_EveryRequestIsAnsweredOnce ==
    /\ [](\A r \in Callers :
            rstage[r] = "replied"
                => /\ rframe[r].id = r
                   /\ rframe[r].type \in {"response", "error"}
                   /\ rframe[r].type = "error" => rframe[r].code # 0 /\ rframe[r].message # "")
    /\ \A r \in Callers :
            (rstage[r] = "dispatched" /\ rconn[r] # HTTP)
                ~> (rstage[r] = "replied" \/ ~(rconn[r] # HTTP /\ conn[rconn[r]] = "open"))

(***************************************************************************)
(* Claims about the connection gate, checked under SpecGate.               *)
(***************************************************************************)

\* What has been dispatched for the frames of connection c.
RequestsOf(c) == {r \in Callers : rstage[r] # "idle" /\ rconn[r] = c}

\* C15 (authentication gate): a connection is authenticated (its handlers
\* are attached) only if the credential it presented validates; a connection
\* whose credential is missing or does not validate is closed with code
\* 1008, is never authenticated, has none of its frames dispatched and is
\* never registered for broadcast.
C15_OnlyValidCredentialsPassTheGate ==
    \A c \in Conns :
        /\ conn[c] \in {"open", "closing", "closed"} => validateToken(cred[c])
        /\ cred[c] \in {"missing", "invalid"}
              => /\ conn[c] = "rejected"
                 /\ closeCode[c] = POLICY_VIOLATION
                 /\ RequestsOf(c) = {}
                 /\ c \notin Range(clients)
                 /\ ~csub[c]
                 /\ inbox[c] = <<>>

\* One connection was turned away for its credential while another one, let
\* in, has had a request answered and is registered for broadcast.
C15_Witness ==
    \E c, d \in Conns :
        /\ cred[c] = "invalid" /\ conn[c] = "rejected"
        /\ cred[d] = "valid" /\ conn[d] = "open"
        /\ d \in Range(clients)
        /\ \E r \in RequestsOf(d) : rstage[r] = "replied"

(***************************************************************************)
(* Claims about broadcast, checked under SpecConn.                         *)
(***************************************************************************)

\* Connection c holds one more frame than before, the payload.
Delivered(c, payload) == inbox'[c] = Append(inbox[c], payload)

\* C17 (broadcast reaches the authenticated): broadcast(message) delivers
\* the message to every connection that is authenticated and open, whether
\* it has sent a subscribe frame or not.
C17_BroadcastReachesEveryAuthenticatedOpen ==
    [][\A payload \in Payloads, failing \in SUBSET Conns :
          Broadcast(payload, failing)
              => \A c \in Conns :
                    (conn[c] = "open" /\ validateToken(cred[c]) /\ c \notin failing)
                        => Delivered(c, payload)]_vars

\* C18 (fan-out): one call of broadcast delivers one copy of the payload to
\* each open connection that has sent a subscribe frame, and nothing to a
\* connection that is no longer open.
C18_FanOutToEverySubscriber ==
    [][\A payload \in Payloads, failing \in SUBSET Conns :
          Broadcast(payload, failing)
              => \A c \in Conns :
                    /\ (conn[c] = "open" /\ csub[c] /\ c \notin failing)
                            => Delivered(c, payload)
                    /\ conn[c] \in {"closing", "closed"} => inbox'[c] = inbox[c]]_vars

=============================================================================
